---- MODULE Spec2Model ----
(***************************************************************************)
(* Model of xla::gpu::AutotunerCompileUtil                                 *)
(* (tensorflow/compiler/xla/service/gpu/autotuner_compile_util.cc):        *)
(* the process-wide executable cache guarded by executable_cache_mutex,    *)
(* Compile / CompileNoCache / RunBackend, GenerateAndProfileExecutable and *)
(* ClearCompilationCache, run by concurrent worker threads.                *)
(***************************************************************************)
EXTENDS Integers, Sequences, FiniteSets, TLC

\* ------------------------------------------------------------------ bounds
\* Total number of calls (GenerateAndProfileExecutable or
\* ClearCompilationCache) started in one behaviour.
MaxCalls == 3

Threads == {1, 2}
Keys == {1, 2}

\* ---------------------------------------------------------------- values
\* executable_cache.end(): the key has no entry.
Absent == -1
\* A null std::unique_ptr<Executable> / null Executable*: "no artifact".
NullExe == 0
\* A thread-local that holds nothing yet.
Unset == -2
\* The key of a thread that is in no call, or in ClearCompilationCache,
\* which takes none.
NoKey == 0

\* Behaviours of the ExtractModuleFn a caller passes in.
Extractors == {"module", "uncompilable", "error", "hang"}
\* Outcomes of compiler_->RunBackend.
BackendOutcomes == {"exe", "exhausted", "error"}

VARIABLES
  pc,                \* position of each thread
  key,               \* CompilationKey{cache_key, res} of the current call
  extractor,         \* the ExtractModuleFn of the current call
  compiled,          \* result of CompileNoCache (the local unique_ptr)
  published,         \* ghost: the call's emplace inserted its entry
  executable,        \* Executable* returned by Compile
  status,            \* result of the current call
  trace,             \* ghost: what the current call has invoked, in order
  holders,           \* threads holding executable_cache_mutex
  executable_cache,  \* the map: key -> Absent | NullExe | artifact id
  heap,              \* every Executable ever built: [key, state]
  calls,             \* number of calls started
  snapshot,          \* ghost: executable_cache[key] when the call started
  clearedSince,      \* ghost: threads whose call began before the last clear
  clearedInFlight,   \* ghost: threads that were compiling when a clear ran
  nonNegSeen,        \* ghost: keys called with an extractor that is not "uncompilable"
  compileInvoked,    \* ghost: keys whose compile function was ever invoked
  publishedSinceClear, \* ghost: keys inserted since the last clear()
  crashed,           \* the process aborted (CHECK failure)
  output_buffer,     \* what the caller's output_buffer holds, per call
  execution_output,  \* the ExecutionOutput in scope: which run produced it
  run_options,       \* the run options of the last Execute of the call
  timer_duration,    \* what timer.GetElapsedDuration() gave the call
  pure               \* arguments and result of a function evaluated alone

vars == <<pc, key, extractor, compiled, published, executable, status, trace,
          holders, executable_cache, heap, calls, snapshot, clearedSince,
          clearedInFlight, nonNegSeen, compileInvoked, publishedSinceClear,
          crashed, output_buffer, execution_output, run_options,
          timer_duration, pure>>

\* The variables of a call's execution phase.
ioVars == <<output_buffer, execution_output, run_options, timer_duration>>

\* The call has dispatched no execution yet.
NoRunOptions ==
  [requires_exclusive_lock_on_gpu |-> FALSE,
   device_ordinal |-> 0, stream |-> 0, allocator |-> 0]

\* No duration was read.
NoDuration == -1

\* Elapsed times a GpuTimer can report: never negative; one value stands
\* for them all.
Durations == {1}

\* No function is being evaluated alone.
NoPure == [op |-> "none"]

\* ------------------------------------------------------------- helpers
Count(s, e) == Cardinality({i \in DOMAIN s : s[i] = e})
Has(s, e) == \E i \in DOMAIN s : s[i] = e

IsArtifact(e) == e >= 1

\* A lock that does not wait for the holder.
MutexFree_NoWait(h) == TRUE

\* absl::MutexLock lock(&executable_cache_mutex): blocks while it is held.
MutexFree(h) == h = {}

\* The probe's lock kept across the compilation.
ProbeScopeExit_Keep(h, t) == h

\* The end of the block of lines 149-156: the MutexLock of the probe is
\* destroyed before CompileNoCache is called.
ProbeScopeExit(h, t) == h \ {t}

\* A lookup that returns some entry of the map, whatever its key.
CacheFind_AnyKey(cache, k) ==
  IF \E k2 \in DOMAIN cache : cache[k2] # Absent
  THEN cache[CHOOSE k2 \in DOMAIN cache : cache[k2] # Absent]
  ELSE Absent

\* A probe that never finds anything.
CacheFind_Miss(cache, k) == Absent

\* executable_cache.find(key)
CacheFind(cache, k) == cache[k]

\* An emplace that stores artifacts only: a null result leaves no entry.
CacheEmplace_SkipNull(cache, k, v) ==
  IF cache[k] = Absent /\ v # NullExe THEN [cache EXCEPT ![k] = v] ELSE cache

\* insert_or_assign instead of emplace: the last publisher wins.
CacheEmplace_Assign(cache, k, v) == [cache EXCEPT ![k] = v]

\* executable_cache.emplace(key, std::move(executable)): inserts only if the
\* key has no entry.
CacheEmplace(cache, k, v) ==
  IF cache[k] = Absent THEN [cache EXCEPT ![k] = v] ELSE cache

\* A clear that resets every entry to null but keeps the keys.
CacheClear_Nullify(cache) == [k \in DOMAIN cache |-> IF cache[k] = Absent THEN Absent ELSE NullExe]

\* A clear that destroys nothing.
CacheClear_Keep(cache) == cache

\* executable_cache.clear()
CacheClear(cache) == [k \in DOMAIN cache |-> Absent]

\* The status is tested before the payload: a tagged failure is an error.
CompileNoCacheOn_StatusFirst(ext) == IF ext # "module" THEN "error" ELSE "backend"

\* CompileNoCache, on the extractor's status: "null" (tagged
\* kUncompilableFusion), "error" (any other failure) or "backend".
CompileNoCacheOn(ext) ==
  IF ext = "uncompilable" THEN "null"
  ELSE IF ext # "module" THEN "error"
  ELSE "backend"

\* RunBackend, on the compiler's status: kResourceExhausted is "no artifact".
RunBackendOn(be) ==
  IF be = "exhausted" THEN "null"
  ELSE IF be = "exe" THEN "exe"
  ELSE "error"

\* The error of CompileNoCache is not returned: Compile goes on to publish.
AfterCompileNoCache_Continue(r) == "c_lock2"

\* TF_ASSIGN_OR_RETURN in Compile: an error of CompileNoCache returns at once.
AfterCompileNoCache(r) == IF r = "error" THEN "done" ELSE "c_lock2"

\* The null test left out.
IsNull_Never(e) == FALSE

\* if (!executable) return {std::nullopt};
IsNull(e) == e = NullExe

\* The timed run follows the drain directly, with no timer around it.
AfterDrain_NoTimer(ok) == IF ok THEN "m_timed" ELSE "done"

\* The status of BlockHostUntilDone ignored.
AfterDrain_Ignore(ok) == "m_bind2"

\* TF_RETURN_IF_ERROR(stream->BlockHostUntilDone())
AfterDrain(ok) == IF ok THEN "m_bind2" ELSE "done"

\* ---------------------------------------------------------------- Init
Init ==
  /\ pc = [t \in Threads |-> "idle"]
  /\ key = [t \in Threads |-> NoKey]
  /\ extractor = [t \in Threads |-> "gone"]
  /\ compiled = [t \in Threads |-> Unset]
  /\ published = [t \in Threads |-> FALSE]
  /\ executable = [t \in Threads |-> Unset]
  /\ status = [t \in Threads |-> "none"]
  /\ trace = [t \in Threads |-> << >>]
  /\ holders = {}
  /\ executable_cache = [k \in Keys |-> Absent]
  /\ heap = << >>
  /\ calls = 0
  /\ snapshot = [t \in Threads |-> Absent]
  /\ clearedSince = {}
  /\ clearedInFlight = {}
  /\ nonNegSeen = {}
  /\ compileInvoked = {}
  /\ publishedSinceClear = {}
  /\ crashed = FALSE
  /\ output_buffer = [t \in Threads |-> "caller"]
  /\ execution_output = [t \in Threads |-> "none"]
  /\ run_options = [t \in Threads |-> NoRunOptions]
  /\ timer_duration = [t \in Threads |-> NoDuration]
  /\ pure = NoPure

Ready(t) == ~crashed /\ pc[t] \in {"idle", "done"} /\ calls < MaxCalls

\* Common reset of a thread's locals when a call starts.
Begin(t, k, ext, first) ==
  /\ pc' = [pc EXCEPT ![t] = first]
  /\ key' = [key EXCEPT ![t] = k]
  /\ extractor' = [extractor EXCEPT ![t] = ext]
  /\ compiled' = [compiled EXCEPT ![t] = Unset]
  /\ published' = [published EXCEPT ![t] = FALSE]
  /\ executable' = [executable EXCEPT ![t] = Unset]
  /\ status' = [status EXCEPT ![t] = "running"]
  /\ trace' = [trace EXCEPT ![t] = << >>]
  /\ snapshot' = [snapshot EXCEPT ![t] =
                    IF k = NoKey THEN Absent ELSE executable_cache[k]]
  /\ clearedSince' = clearedSince \ {t}
  /\ clearedInFlight' = clearedInFlight \ {t}
  /\ calls' = calls + 1
  /\ output_buffer' = [output_buffer EXCEPT ![t] = "caller"]
  /\ execution_output' = [execution_output EXCEPT ![t] = "none"]
  /\ run_options' = [run_options EXCEPT ![t] = NoRunOptions]
  /\ timer_duration' = [timer_duration EXCEPT ![t] = NoDuration]
  /\ UNCHANGED pure

\* A caller enters GenerateAndProfileExecutable, which calls Compile.
StartMeasure(t) ==
  /\ Ready(t)
  /\ \E k \in Keys, ext \in Extractors :
       /\ Begin(t, k, ext, "c_lock1")
       /\ nonNegSeen' = IF ext = "uncompilable" THEN nonNegSeen
                        ELSE nonNegSeen \cup {k}
  /\ UNCHANGED <<holders, executable_cache, heap, crashed, compileInvoked, publishedSinceClear>>

\* A caller enters ClearCompilationCache.
StartClear(t) ==
  /\ Ready(t)
  /\ Begin(t, NoKey, "gone", "cl_lock")
  /\ UNCHANGED <<holders, executable_cache, heap, crashed, nonNegSeen, compileInvoked, publishedSinceClear>>

Log(t, e) == trace' = [trace EXCEPT ![t] = Append(@, e)]
Goto(t, p) == pc' = [pc EXCEPT ![t] = p]

\* Compile, line 150: take the mutex for the probe.
LockProbe(t) ==
  /\ ~crashed /\ pc[t] = "c_lock1"
  /\ UNCHANGED <<ioVars, pure>>
  /\ MutexFree(holders)
  /\ holders' = holders \cup {t}
  /\ Goto(t, "c_find")
  /\ UNCHANGED <<key, extractor, compiled, published, executable, status,
                 trace, executable_cache, heap, calls, snapshot, clearedSince,
                 clearedInFlight, nonNegSeen, compileInvoked, publishedSinceClear, crashed>>

\* The cached entry is found and the caller's extractor is run all the same.
AfterFind_Recompile(found) == "c_extract"

\* Compile, lines 152-158: a hit returns from Compile; a miss goes on to
\* CompileNoCache.
AfterFind(found) == IF found THEN "m_check" ELSE "c_extract"

\* Compile, lines 151-156: find; a hit returns the cached pointer (and the
\* caller's extractor is dropped unused); the lock is released when the block
\* is left.
Probe(t) ==
  /\ ~crashed /\ pc[t] = "c_find"
  /\ UNCHANGED <<ioVars, pure>>
  /\ LET e == CacheFind(executable_cache, key[t]) IN
       IF e # Absent
       THEN /\ executable' = [executable EXCEPT ![t] = e]
            /\ extractor' = [extractor EXCEPT ![t] = "gone"]
            /\ Log(t, "hit")
            /\ Goto(t, AfterFind(TRUE))
       ELSE /\ Log(t, "miss")
            /\ Goto(t, AfterFind(FALSE))
            /\ UNCHANGED <<executable, extractor>>
  /\ holders' = ProbeScopeExit(holders, t)
  /\ UNCHANGED <<key, compiled, published, status,
                 executable_cache, heap, calls, snapshot, clearedSince,
                 clearedInFlight, nonNegSeen, compileInvoked, publishedSinceClear, crashed>>

\* CompileNoCache, lines 168-174: run the extractor and classify its status.
\* An extractor that never returns leaves the thread here for ever. The
\* callback was moved into the call and is destroyed when it returns.
Extract(t) ==
  /\ ~crashed /\ pc[t] = "c_extract"
  /\ UNCHANGED <<ioVars, pure>>
  /\ extractor[t] # "hang"
  /\ Log(t, "extract")
  /\ LET r == CompileNoCacheOn(extractor[t]) IN
       /\ compiled' = [compiled EXCEPT ![t] = IF r = "null" THEN NullExe ELSE @]
       /\ status' = [status EXCEPT ![t] = IF r = "error" THEN "error" ELSE @]
       /\ Goto(t, IF r = "backend" THEN "c_backend" ELSE AfterCompileNoCache(r))
  /\ extractor' = [extractor EXCEPT ![t] = "gone"]
  /\ compileInvoked' = compileInvoked \cup {key[t]}
  /\ UNCHANGED <<key, published, executable, holders,
                 executable_cache, heap, calls, snapshot, clearedSince,
                 clearedInFlight, nonNegSeen, publishedSinceClear, crashed>>

\* RunBackend, lines 208-225: compile the module; a new Executable is built
\* on success.
Backend(t) ==
  /\ ~crashed /\ pc[t] = "c_backend"
  /\ UNCHANGED <<ioVars, pure>>
  /\ Log(t, "backend")
  /\ \E be \in BackendOutcomes :
       LET r == RunBackendOn(be) IN
         /\ heap' = IF r = "exe"
                    THEN Append(heap, [key |-> key[t], state |-> "local"])
                    ELSE heap
         /\ compiled' = [compiled EXCEPT ![t] =
                           IF r = "exe" THEN Len(heap) + 1
                           ELSE IF r = "null" THEN NullExe ELSE @]
         /\ status' = [status EXCEPT ![t] = IF r = "error" THEN "error" ELSE @]
         /\ Goto(t, AfterCompileNoCache(r))
  /\ UNCHANGED <<key, extractor, published, executable, holders,
                 executable_cache, calls, snapshot, clearedSince,
                 clearedInFlight, nonNegSeen, compileInvoked, publishedSinceClear, crashed>>

\* Compile, line 160: take the mutex to publish.
LockPublish(t) ==
  /\ ~crashed /\ pc[t] = "c_lock2"
  /\ UNCHANGED <<ioVars, pure>>
  /\ MutexFree(holders)
  /\ holders' = holders \cup {t}
  /\ Goto(t, "c_emplace")
  /\ UNCHANGED <<key, extractor, compiled, published, executable, status,
                 trace, executable_cache, heap, calls, snapshot, clearedSince,
                 clearedInFlight, nonNegSeen, compileInvoked, publishedSinceClear, crashed>>

\* Compile, lines 161-163: emplace and return the pointer of the entry now
\* in the map. When the key is already there the local unique_ptr is
\* destroyed with its Executable.
Publish(t) ==
  /\ ~crashed /\ pc[t] = "c_emplace"
  /\ UNCHANGED <<ioVars, pure>>
  /\ LET v == IF compiled[t] = Unset THEN NullExe ELSE compiled[t]
         newcache == CacheEmplace(executable_cache, key[t], v)
         inserted == executable_cache[key[t]] = Absent /\ newcache[key[t]] = v
     IN
       /\ executable_cache' = newcache
       /\ published' = [published EXCEPT ![t] = inserted]
       /\ executable' = [executable EXCEPT ![t] = newcache[key[t]]]
       /\ heap' = IF IsArtifact(v)
                  THEN [heap EXCEPT ![v].state =
                          IF newcache[key[t]] = v THEN "cached" ELSE "discarded"]
                  ELSE heap
       /\ publishedSinceClear' = IF inserted THEN publishedSinceClear \cup {key[t]}
                                 ELSE publishedSinceClear
  /\ Log(t, "emplace")
  /\ holders' = holders \ {t}
  /\ Goto(t, "m_check")
  /\ UNCHANGED <<key, extractor, compiled, status, calls, snapshot,
                 clearedSince, clearedInFlight, nonNegSeen, compileInvoked,
                 crashed>>

\* ClearCompilationCache, line 229.
LockClear(t) ==
  /\ ~crashed /\ pc[t] = "cl_lock"
  /\ UNCHANGED <<ioVars, pure>>
  /\ MutexFree(holders)
  /\ holders' = holders \cup {t}
  /\ Goto(t, "cl_clear")
  /\ UNCHANGED <<key, extractor, compiled, published, executable, status,
                 trace, executable_cache, heap, calls, snapshot, clearedSince,
                 clearedInFlight, nonNegSeen, compileInvoked, publishedSinceClear, crashed>>

CompilingPCs == {"c_extract", "c_backend", "c_lock2", "c_emplace"}

\* ClearCompilationCache, lines 230-231: clear the map, destroying every
\* Executable it owns, and release the lock.
Clear(t) ==
  /\ ~crashed /\ pc[t] = "cl_clear"
  /\ UNCHANGED <<ioVars, pure>>
  /\ executable_cache' = CacheClear(executable_cache)
  /\ heap' = [i \in DOMAIN heap |->
                IF /\ heap[i].state = "cached"
                   /\ \A k \in Keys : executable_cache'[k] # i
                THEN [heap[i] EXCEPT !.state = "cleared"] ELSE heap[i]]
  /\ holders' = holders \ {t}
  /\ status' = [status EXCEPT ![t] = "cleared"]
  /\ Log(t, "clear")
  /\ Goto(t, "done")
  /\ clearedSince' = Threads
  /\ clearedInFlight' = clearedInFlight \cup {u \in Threads : pc[u] \in CompilingPCs}
  /\ publishedSinceClear' = {}
  /\ UNCHANGED <<key, extractor, compiled, published, executable, calls,
                 snapshot, nonNegSeen, compileInvoked, crashed>>

\* The Executable behind a raw pointer was destroyed (by clear()).
Freed(e) == IsArtifact(e) /\ heap[e].state \in {"cleared", "discarded"}

\* Outcomes of touching an Executable: using a destroyed one is undefined
\* behaviour, which may also abort the process.
UseOutcomes(e) == IF Freed(e) THEN {"ok", "error", "crash"} ELSE {"ok", "error"}

\* Frame of the steps of GenerateAndProfileExecutable after Compile: they
\* change only pc, status, trace and crashed.
MeasureFrame ==
  UNCHANGED <<key, extractor, compiled, published, executable, holders,
              executable_cache, heap, calls, snapshot, clearedSince,
              clearedInFlight, nonNegSeen, compileInvoked, publishedSinceClear,
              pure>>

Fail(t) == status' = [status EXCEPT ![t] = "error"] /\ Goto(t, "done")

\* GenerateAndProfileExecutable, lines 116-118.
CheckExecutable(t) ==
  /\ ~crashed /\ pc[t] = "m_check"
  /\ UNCHANGED ioVars
  /\ IF IsNull(executable[t])
     THEN status' = [status EXCEPT ![t] = "nullopt"] /\ Goto(t, "done")
     ELSE Goto(t, "m_bind1") /\ UNCHANGED status
  /\ UNCHANGED <<trace, crashed>>
  /\ MeasureFrame

\* Lines 120-121 / ExecutionInputsFromBuffers: CHECK_EQ aborts the process
\* when the buffer count is not the parameter count.
BindWarmup(t) ==
  /\ ~crashed /\ pc[t] = "m_bind1"
  /\ UNCHANGED ioVars
  /\ \E arityOk \in BOOLEAN :
       IF arityOk
       THEN Log(t, "bind") /\ Goto(t, "m_warmup") /\ UNCHANGED crashed
       ELSE crashed' = TRUE /\ UNCHANGED <<pc, trace>>
  /\ UNCHANGED status
  /\ MeasureFrame

\* The AutotunerCompileUtil a thread calls through: its stream_, allocator_
\* and the device ordinal of its stream_executor_.
Util(t) == [stream |-> t, allocator |-> t, device_ordinal |-> t]

\* Run options that do not ask for the exclusive lock.
ExecuteRunOptions_NoLock(u) ==
  [requires_exclusive_lock_on_gpu |-> FALSE,
   device_ordinal |-> u.device_ordinal,
   stream |-> u.stream,
   allocator |-> u.allocator]

\* Execute, lines 189-197: the run options handed to the executable.
ExecuteRunOptions(u) ==
  [requires_exclusive_lock_on_gpu |-> TRUE,
   device_ordinal |-> u.device_ordinal,
   stream |-> u.stream,
   allocator |-> u.allocator]

\* A failed Execute is dispatched again.
AfterExecute_Retry(ok, q) ==
  IF ok THEN q ELSE IF q = "m_drain" THEN "m_warmup" ELSE "m_timed"

\* An execution whose failure does not return.
AfterExecute_Ignore(ok, q) == q

\* TF_ASSIGN_OR_RETURN around Execute (lines 124-125, 132-133): a failed run
\* returns at once.
AfterExecute(ok, q) == IF ok THEN q ELSE "done"

\* The run dispatched at position p.
RunAt(p) == IF p = "m_warmup" THEN "warmup" ELSE "timed"

\* One call of Execute (lines 186-203) at position p, going to q on success.
ExecuteAt(t, p, q) ==
  /\ ~crashed /\ pc[t] = p
  /\ run_options' = [run_options EXCEPT ![t] = ExecuteRunOptions(Util(t))]
  /\ UNCHANGED <<output_buffer, timer_duration>>
  /\ \E o \in UseOutcomes(executable[t]) :
       CASE o = "ok" ->
              /\ Log(t, "execute")
              /\ Goto(t, AfterExecute(TRUE, q))
              /\ execution_output' = [execution_output EXCEPT ![t] = RunAt(p)]
              /\ UNCHANGED <<status, crashed>>
         [] o = "error" ->
              /\ trace' = [trace EXCEPT ![t] = @ \o <<"execute", "execute_failed">>]
              /\ Goto(t, AfterExecute(FALSE, q))
              /\ status' = [status EXCEPT ![t] = "error"]
              /\ UNCHANGED <<execution_output, crashed>>
         [] o = "crash" ->
              /\ Log(t, "execute")
              /\ crashed' = TRUE
              /\ UNCHANGED <<pc, status, execution_output>>
  /\ MeasureFrame

\* Lines 124-125: the warmup run.
ExecuteWarmup(t) == ExecuteAt(t, "m_warmup", "m_drain")

\* Line 126: stream->BlockHostUntilDone(). The warmup's ExecutionOutput goes
\* out of scope at line 127, or at the return.
Drain(t) ==
  /\ ~crashed /\ pc[t] = "m_drain"
  /\ execution_output' = [execution_output EXCEPT ![t] = "none"]
  /\ UNCHANGED <<output_buffer, run_options, timer_duration>>
  /\ \E ok \in BOOLEAN :
       /\ Log(t, IF ok THEN "drain" ELSE "drain_failed")
       /\ Goto(t, AfterDrain(ok))
       /\ status' = [status EXCEPT ![t] = IF ok THEN @ ELSE "error"]
  /\ UNCHANGED crashed
  /\ MeasureFrame

\* Lines 128-129: the same executable and buffers are bound again; only a
\* destroyed Executable can make the outcome differ from the first bind.
BindTimed(t) ==
  /\ ~crashed /\ pc[t] = "m_bind2"
  /\ UNCHANGED ioVars
  /\ \E arityOk \in (IF Freed(executable[t]) THEN BOOLEAN ELSE {TRUE}) :
       IF arityOk
       THEN Log(t, "bind") /\ Goto(t, "m_timer") /\ UNCHANGED crashed
       ELSE crashed' = TRUE /\ UNCHANGED <<pc, trace>>
  /\ UNCHANGED status
  /\ MeasureFrame

\* Lines 130-131: GpuTimer::Create.
CreateTimer(t) ==
  /\ ~crashed /\ pc[t] = "m_timer"
  /\ UNCHANGED ioVars
  /\ \E ok \in BOOLEAN :
       IF ok
       THEN Log(t, "timer") /\ Goto(t, "m_timed") /\ UNCHANGED status
       ELSE Fail(t) /\ Log(t, "timer_failed")
  /\ UNCHANGED crashed
  /\ MeasureFrame

\* Lines 132-133: the timed run.
ExecuteTimed(t) == ExecuteAt(t, "m_timed", "m_elapsed")

\* Lines 134-135: timer.GetElapsedDuration().
ReadTimer(t) ==
  /\ ~crashed /\ pc[t] = "m_elapsed"
  /\ UNCHANGED <<output_buffer, execution_output, run_options>>
  /\ \/ \E d \in Durations :
          /\ timer_duration' = [timer_duration EXCEPT ![t] = d]
          /\ Log(t, "elapsed") /\ Goto(t, "m_size") /\ UNCHANGED status
     \/ Fail(t) /\ Log(t, "elapsed_failed") /\ UNCHANGED timer_duration
  /\ UNCHANGED crashed
  /\ MeasureFrame

\* A size check whose failure does not return.
AfterSizeCheck_Ignore(sameSize) == "m_copy"

\* TF_RET_CHECK at line 137: a size mismatch returns an error at once.
AfterSizeCheck(sameSize) == IF sameSize THEN "m_copy" ELSE "done"

\* A copy with its arguments exchanged.
ThenMemcpy_Swapped(dst, src) == dst

\* stream->ThenMemcpy(&dst, src, size): what dst holds afterwards.
ThenMemcpy(dst, src) == src

\* Lines 136-137: TF_RET_CHECK(output_buffer.size() == root_buffer().size()).
CheckSize(t) ==
  /\ ~crashed /\ pc[t] = "m_size"
  /\ UNCHANGED ioVars
  /\ \E sameSize \in BOOLEAN :
       /\ Log(t, IF sameSize THEN "size_ok" ELSE "size_mismatch")
       /\ Goto(t, AfterSizeCheck(sameSize))
       /\ status' = [status EXCEPT ![t] = IF sameSize THEN @ ELSE "error"]
  /\ UNCHANGED crashed
  /\ MeasureFrame

\* Lines 140-142: ThenMemcpy into output_buffer, return the duration.
CopyOut(t) ==
  /\ ~crashed /\ pc[t] = "m_copy"
  /\ Log(t, "copy")
  /\ output_buffer' = [output_buffer EXCEPT ![t] = ThenMemcpy(@, execution_output[t])]
  /\ UNCHANGED <<execution_output, run_options, timer_duration>>
  /\ status' = [status EXCEPT ![t] = "duration"]
  /\ Goto(t, "done")
  /\ UNCHANGED crashed
  /\ MeasureFrame

Next ==
  \E t \in Threads :
    \/ StartMeasure(t)
    \/ StartClear(t)
    \/ LockProbe(t)
    \/ Probe(t)
    \/ Extract(t)
    \/ Backend(t)
    \/ LockPublish(t)
    \/ Publish(t)
    \/ CheckExecutable(t)
    \/ BindWarmup(t)
    \/ ExecuteWarmup(t)
    \/ Drain(t)
    \/ BindTimed(t)
    \/ CreateTimer(t)
    \/ ExecuteTimed(t)
    \/ ReadTimer(t)
    \/ CheckSize(t)
    \/ CopyOut(t)
    \/ LockClear(t)
    \/ Clear(t)

Spec == Init /\ [][Next]_vars
\* Every step of thread t that is part of a call already started.
Step(t) ==
  \/ LockProbe(t) \/ Probe(t) \/ Extract(t) \/ Backend(t)
  \/ LockPublish(t) \/ Publish(t)
  \/ CheckExecutable(t) \/ BindWarmup(t) \/ ExecuteWarmup(t) \/ Drain(t)
  \/ BindTimed(t) \/ CreateTimer(t) \/ ExecuteTimed(t) \/ ReadTimer(t)
  \/ CheckSize(t) \/ CopyOut(t)
  \/ LockClear(t) \/ Clear(t)

\* Threads are scheduled fairly: a thread whose next step stays possible
\* takes it.
LiveSpec == Spec /\ \A t \in Threads : WF_vars(Step(t))

\* ------------------------------------------------------------ properties
InCompile(t) ==
  pc[t] \in {"c_lock1", "c_find", "c_extract", "c_backend", "c_lock2", "c_emplace"}

\* Compile has returned a pointer (not an error) to the current call of t.
Returned(t) == executable[t] # Unset

\* The current call of t is a GenerateAndProfileExecutable call.
IsMeasure(t) == pc[t] \notin {"idle", "cl_lock", "cl_clear"} /\ status[t] # "cleared"

\* C1: cache idempotence. A call that starts when its key already has an
\* entry, with no clear() since it started, invokes neither the extractor
\* nor the backend and gets the entry that was cached; and an entry is only
\* ever in the cache after the compile function ran for its key.
CacheIdempotence ==
  /\ \A t \in Threads :
       (IsMeasure(t) /\ snapshot[t] # Absent /\ t \notin clearedSince) =>
         /\ ~Has(trace[t], "miss")
         /\ ~Has(trace[t], "extract")
         /\ ~Has(trace[t], "backend")
         /\ pc[t] \notin {"c_extract", "c_backend", "c_lock2", "c_emplace"}
         /\ status[t] # "error" \/ Has(trace[t], "bind")
         /\ Returned(t) => executable[t] = snapshot[t]
         /\ ~InCompile(t) => Returned(t)
  /\ \A k \in Keys : executable_cache[k] # Absent => k \in compileInvoked

\* A second call found the published entry and went on to a measurement.
CacheIdempotenceWitness ==
  \E t \in Threads :
    /\ snapshot[t] # Absent /\ t \notin clearedSince
    /\ pc[t] = "done" /\ status[t] = "duration"
    /\ Has(trace[t], "hit")
    /\ IsArtifact(executable[t])

PublishStep(t) == pc[t] = "c_emplace" /\ pc'[t] # "c_emplace"

\* C2: first insert wins. A publisher that finds its key present leaves the
\* map as it is, destroys its own Executable and returns the existing entry
\* without an error; an entry changes only by clear(); and callers of equal
\* keys with no clear() since they started hold the same pointer.
FirstInsertWins ==
  /\ [][\A t \in Threads :
          (PublishStep(t) /\ executable_cache[key[t]] # Absent) =>
            /\ executable_cache' = executable_cache
            /\ executable'[t] = executable_cache[key[t]]
            /\ ~published'[t]
            /\ status'[t] = "running"
            /\ IsArtifact(compiled[t]) => heap'[compiled[t]].state = "discarded"]_vars
  /\ [][\A k \in Keys :
          (executable_cache[k] # Absent /\ executable_cache'[k] # executable_cache[k])
            => (executable_cache'[k] = Absent /\ \E t \in Threads : pc[t] = "cl_clear")]_vars
  /\ [](\A t, u \in Threads :
          (/\ IsMeasure(t) /\ IsMeasure(u)
           /\ Returned(t) /\ Returned(u) /\ key[t] = key[u]
           /\ t \notin clearedSince /\ u \notin clearedSince)
            => executable[t] = executable[u])

\* Two callers compiled the same key; the loser's Executable was destroyed
\* and it holds the winner's.
FirstInsertWinsWitness ==
  \E t, u \in Threads :
    /\ t # u /\ key[t] = key[u]
    /\ Has(trace[t], "emplace") /\ ~published[t]
    /\ IsArtifact(compiled[t]) /\ heap[compiled[t]].state = "discarded"
    /\ published[u] /\ IsArtifact(compiled[u])
    /\ executable[t] = compiled[u] /\ executable[u] = compiled[u]
    /\ t \notin clearedSince

MapAccessPCs == {"c_find", "c_emplace", "cl_clear"}

\* C3: mutual exclusion on the map. A thread about to find, emplace or clear
\* holds executable_cache_mutex, and at most one thread holds it.
MutualExclusion ==
  /\ Cardinality(holders) <= 1
  /\ \A t \in Threads : pc[t] \in MapAccessPCs <=> t \in holders

\* One thread is publishing under the lock while the other waits for it.
MutualExclusionWitness ==
  \E t, u \in Threads :
    /\ t # u
    /\ pc[t] = "c_emplace" /\ t \in holders
    /\ pc[u] \in {"c_lock1", "c_lock2", "cl_lock"}

\* The extractor of t never returns.
Hung(t) == pc[t] = "c_extract" /\ extractor[t] = "hang"

Active(t) == pc[t] \notin {"idle", "done"}

\* C4: the lock is never held while the extractor or the backend runs, and
\* under fair scheduling every call completes unless its own compile
\* function blocks for ever or the process aborts, whatever the other
\* threads are blocked in.
LockFreeCompile ==
  /\ [](\A t \in Threads : pc[t] \in {"c_extract", "c_backend"} => t \notin holders)
  /\ \A t \in Threads : Active(t) ~> (pc[t] = "done" \/ Hung(t) \/ crashed)

\* One thread is blocked in its extractor for ever; since it started, the
\* other has completed a clear() and a call that published the same key.
LockFreeCompileWitness ==
  \E t, u \in Threads :
    /\ Hung(t) /\ t \in clearedSince
    /\ key[u] = key[t]
    /\ pc[u] = "done" /\ published[u] /\ status[u] = "duration"

\* C5: negative-result caching. While every extractor passed for a key
\* reports the tagged "uncompilable" failure, no call with that key ends in
\* an error, every pointer returned for it is null, every finished call with
\* it returned "no measurement", and no Executable is ever built or stored
\* for it.
NegativeResultCaching ==
  \A t \in Threads :
    (IsMeasure(t) /\ key[t] \notin nonNegSeen) =>
      /\ status[t] \in {"running", "nullopt"}
      /\ compiled[t] \in {Unset, NullExe}
      /\ Returned(t) => executable[t] = NullExe
      /\ pc[t] = "done" => (status[t] = "nullopt" /\ Returned(t))
      /\ executable_cache[key[t]] \in {Absent, NullExe}

\* A call for such a key found the cached null entry and returned it.
NegativeResultCachingWitness ==
  \E t \in Threads :
    /\ IsMeasure(t) /\ key[t] \notin nonNegSeen
    /\ pc[t] = "done" /\ status[t] = "nullopt"
    /\ Has(trace[t], "hit")

ClearStep(t) == pc[t] = "cl_clear" /\ pc'[t] = "done"
ProbeStep(t) == pc[t] = "c_find" /\ pc'[t] # "c_find"

\* C6: clear-then-miss. clear() leaves no key with an entry, so an entry in
\* the map was inserted after the last clear(); a probe for a key not
\* inserted since the last clear() misses and goes on to the extractor; and
\* a call with no clear() since it started never holds an Executable that a
\* clear() destroyed.
ClearThenMiss ==
  /\ [][\A t \in Threads :
          ClearStep(t) => \A k \in Keys : executable_cache'[k] = Absent]_vars
  /\ [](\A k \in Keys : executable_cache[k] # Absent => k \in publishedSinceClear)
  /\ [][\A t \in Threads :
          (ProbeStep(t) /\ key[t] \notin publishedSinceClear) =>
            /\ pc'[t] = "c_extract"
            /\ executable'[t] = Unset
            /\ Has(trace'[t], "miss")]_vars
  /\ [](\A t \in Threads :
          (IsMeasure(t) /\ Returned(t) /\ t \notin clearedSince /\ IsArtifact(executable[t]))
            => heap[executable[t]].state = "cached")

\* After a clear() destroyed the entry of a key, a call with that key
\* compiled again and published a new Executable.
ClearThenMissWitness ==
  \E t \in Threads : \E i \in DOMAIN heap :
    /\ IsMeasure(t) /\ t \notin clearedSince
    /\ heap[i].state = "cleared" /\ heap[i].key = key[t]
    /\ Has(trace[t], "miss") /\ Has(trace[t], "backend")
    /\ published[t] /\ IsArtifact(executable[t]) /\ executable[t] # i

\* C7 as stated: a call that was compiling when clear() ran inserts its own
\* result when it publishes and returns that entry.
ClearRaceAlwaysInserts ==
  \A t \in Threads :
    (t \in clearedInFlight /\ Has(trace[t], "emplace")) =>
      (published[t] /\ executable[t] = compiled[t])

\* C7 amended: a call that was compiling when clear() ran publishes without
\* an error and returns the entry the map then holds for its key; that entry
\* is its own result when the key was not inserted since the clear(), and
\* otherwise the entry inserted since, its own Executable being destroyed.
ClearRaceSafe ==
  [][\A t \in Threads :
       (PublishStep(t) /\ t \in clearedInFlight) =>
         /\ status'[t] = "running"
         /\ executable'[t] = executable_cache'[key[t]]
         /\ executable'[t] # Absent
         /\ IsArtifact(executable'[t]) => heap'[executable'[t]].state = "cached"
         /\ IF key[t] \notin publishedSinceClear
            THEN /\ published'[t]
                 /\ executable'[t] = compiled[t]
            ELSE /\ ~published'[t]
                 /\ executable_cache' = executable_cache
                 /\ IsArtifact(compiled[t]) => heap'[compiled[t]].state = "discarded"]_vars

\* A call that was compiling when clear() ran has published its own
\* Executable into the emptied map.
ClearRaceSafeWitness ==
  \E t \in Threads :
    /\ t \in clearedInFlight
    /\ Has(trace[t], "emplace") /\ published[t]
    /\ IsArtifact(compiled[t]) /\ executable[t] = compiled[t]
    /\ executable_cache[key[t]] = compiled[t]

\* C8 as stated: a call that ended in any fatal error has no entry of its
\* own in the cache.
FatalLeavesNoEntry ==
  \A t \in Threads :
    (IsMeasure(t) /\ status[t] = "error") =>
      ~(published[t] /\ executable_cache[key[t]] = compiled[t])

\* The call of t failed inside Compile, before any execution step.
CompileFailed(t) == IsMeasure(t) /\ status[t] = "error" /\ ~Has(trace[t], "bind")

\* C8 amended: a call whose compilation failed fatally (an extractor failure
\* that is not tagged, a backend failure other than resource exhaustion)
\* never reached the emplace and inserted nothing.
FatalCompileLeavesNoEntry ==
  \A t \in Threads :
    CompileFailed(t) =>
      /\ ~published[t]
      /\ ~Has(trace[t], "emplace")
      /\ ~Returned(t)
      /\ compiled[t] = Unset
      /\ pc[t] = "done"

\* A backend failure ended a call whose key still has no entry.
FatalCompileLeavesNoEntryWitness ==
  \E t \in Threads :
    /\ CompileFailed(t) /\ Has(trace[t], "backend")
    /\ executable_cache[key[t]] = Absent

ExecutionEvents ==
  {"bind", "execute", "drain", "drain_failed", "timer", "elapsed", "copy"}

\* C9: when Compile returns the null pointer, the call returns "no
\* measurement" and not an error, and binds, executes, drains, times and
\* copies nothing.
NoArtifactNoMeasurement ==
  \A t \in Threads :
    (IsMeasure(t) /\ Returned(t) /\ executable[t] = NullExe) =>
      /\ pc[t] \in {"m_check", "done"}
      /\ status[t] \in {"running", "nullopt"}
      /\ pc[t] = "done" <=> status[t] = "nullopt"
      /\ \A e \in ExecutionEvents : ~Has(trace[t], e)

\* The backend ran out of resources and the call returned "no measurement".
NoArtifactNoMeasurementWitness ==
  \E t \in Threads :
    /\ IsMeasure(t) /\ pc[t] = "done" /\ status[t] = "nullopt"
    /\ Has(trace[t], "backend") /\ compiled[t] = NullExe
    /\ executable[t] = NullExe

\* C10: warmup before timing. A call that returns a duration invoked
\* execute exactly twice, with a successful BlockHostUntilDone between the
\* two and no failed one.
WarmupBeforeTiming ==
  \A t \in Threads :
    status[t] = "duration" =>
      /\ Count(trace[t], "execute") = 2
      /\ Count(trace[t], "drain") = 1
      /\ ~Has(trace[t], "drain_failed")
      /\ \E j \in DOMAIN trace[t] :
           /\ trace[t][j] = "drain"
           /\ \E i \in 1..(j - 1) : trace[t][i] = "execute"
           /\ \E k \in (j + 1)..Len(trace[t]) : trace[t][k] = "execute"

\* A call compiled its Executable, ran it twice and returned a duration.
WarmupBeforeTimingWitness ==
  \E t \in Threads :
    /\ status[t] = "duration" /\ pc[t] = "done"
    /\ published[t] /\ Has(trace[t], "copy")

\* The last event of a call's trace.
Last(s) == s[Len(s)]

\* C11: size-mismatch rejection. When the output of the timed run and the
\* caller's output buffer differ in byte size, the call returns an error
\* (no duration) at once, copies nothing, and the caller's output buffer
\* holds what it held when the call started.
SizeMismatchRejected ==
  \A t \in Threads :
    Has(trace[t], "size_mismatch") =>
      /\ pc[t] = "done"
      /\ status[t] = "error"
      /\ Last(trace[t]) = "size_mismatch"
      /\ ~Has(trace[t], "copy")
      /\ output_buffer[t] = "caller"

SizeMismatchRejectedWitness ==
  \E t \in Threads :
    /\ Has(trace[t], "size_mismatch") /\ Has(trace[t], "elapsed")
    /\ execution_output[t] = "timed" /\ pc[t] = "done"

\* C19: an expected-negative outcome is stored. The emplace of a null result
\* leaves the key in the map, with the null marker when the key was not
\* there; a call that gets null from Compile leaves the marker under its
\* key; the marker stays until a clear(); and a probe that finds it returns
\* null without the extractor or the backend running, whatever extractor the
\* call brought.
ExpectedNegativeStored ==
  [][/\ \A t \in Threads :
          /\ PublishStep(t) =>
               /\ executable_cache'[key[t]] # Absent
               /\ (compiled[t] = NullExe /\ executable_cache[key[t]] = Absent) =>
                    executable_cache'[key[t]] = NullExe
          /\ (executable[t] = Unset /\ executable'[t] = NullExe) =>
               executable_cache'[key[t]] = NullExe
          /\ (ProbeStep(t) /\ executable_cache[key[t]] = NullExe) =>
               /\ executable'[t] = NullExe
               /\ trace'[t] = Append(trace[t], "hit")
               /\ pc'[t] = "m_check"
          /\ (Has(trace[t], "hit") /\ executable[t] = NullExe) =>
               /\ ~Has(trace'[t], "extract") /\ ~Has(trace'[t], "backend")
               /\ status'[t] \in {"running", "nullopt"}
     /\ \A k \in Keys :
          executable_cache[k] = NullExe =>
            \/ executable_cache'[k] = NullExe
            \/ \E t \in Threads : ClearStep(t)]_vars

\* One call stored the marker after a tagged failure of its extractor; the
\* only other call, whose extractor was not one that fails that way, was
\* served the marker from the map.
ExpectedNegativeStoredWitness ==
  \E t \in Threads, u \in Threads :
    /\ calls = 2 /\ t # u /\ key[t] = key[u]
    /\ pc[u] = "done" /\ published[u] /\ executable[u] = NullExe
    /\ Has(trace[u], "extract") /\ ~Has(trace[u], "backend")
    /\ pc[t] = "done" /\ status[t] = "nullopt" /\ Has(trace[t], "hit")
    /\ key[t] \in nonNegSeen
    /\ executable_cache[key[t]] = NullExe

\* ---------------------------------------------------------------------
\* Functions evaluated alone: the variable pure holds the arguments and the
\* result of one evaluation; the cache and the threads stay as Init left them.

callVars == <<pc, key, extractor, compiled, published, executable, status,
              trace, holders, executable_cache, heap, calls, snapshot,
              clearedSince, clearedInFlight, nonNegSeen, compileInvoked,
              publishedSinceClear, crashed, ioVars>>

\* AutotuneCacheKey values: the device model and the canonical HLO text.
Fingerprints == [model_str : {1, 2}, hlo_canonical : {1, 2}]

\* Largest value of a field of an AutotuneResult.
MaxParam == 1

\* AutotuneResult values: the oneof key that is set (or none), the one
\* parameter of that key, and scratch_bytes.
Descriptors ==
  {d \in [kind : {"none", "gemm", "triton"}, param : 0..MaxParam,
          scratch_bytes : 0..MaxParam] :
     d.kind = "none" => d.param = 0}

\* Wire format of a scalar field: a field that holds the default is not written.
FieldBytes(tag, v) == IF v = 0 THEN << >> ELSE <<tag, v>>

\* Wire format of a sub-message that is set: tag, length, content.
MessageBytes(tag, content) == <<tag, Len(content)>> \o content

\* res.SerializeAsString(): the fields that are set, in field-number order.
SerializeAsString(res) ==
  (IF res.kind = "gemm" THEN MessageBytes(6, FieldBytes(1, res.param)) ELSE << >>)
    \o FieldBytes(8, res.scratch_bytes)
    \o (IF res.kind = "triton" THEN MessageBytes(17, FieldBytes(1, res.param)) ELSE << >>)

\* Line 147: CompilationKey key{cache_key, res}.
CompilationKey(f, res) == [autotune_key |-> f, res |-> res]

\* An equality that looks at the candidate only.
KeyEquals_ResOnly(k1, k2) ==
  SerializeAsString(k1.res) = SerializeAsString(k2.res)

\* Lines 66-69: operator==.
KeyEquals(k1, k2) ==
  /\ SerializeAsString(k1.res) = SerializeAsString(k2.res)
  /\ k1.autotune_key = k2.autotune_key

RECURSIVE SumBytes(_)
SumBytes(s) == IF s = << >> THEN 0 ELSE Head(s) + SumBytes(Tail(s))

\* Number of values of the modelled hash.
HashRange == 8

\* Lines 62-64: H::combine(h, k.autotune_key, k.res.SerializeAsString()).
AbslHashValue(k) ==
  (31 * (31 * k.autotune_key.model_str + k.autotune_key.hlo_canonical)
     + SumBytes(SerializeAsString(k.res)) + Len(SerializeAsString(k.res))) % HashRange

\* Two keys are built, compared and hashed (Compile, lines 147 and 151).
EvalKey ==
  /\ pure = NoPure
  /\ \E f1 \in Fingerprints, f2 \in Fingerprints,
        a \in Descriptors, b \in Descriptors :
       LET k1 == CompilationKey(f1, a)
           k2 == CompilationKey(f2, b) IN
         pure' = [op |-> "key", k1 |-> k1, k2 |-> k2,
                  equal |-> KeyEquals(k1, k2),
                  hash1 |-> AbslHashValue(k1), hash2 |-> AbslHashValue(k2)]
  /\ UNCHANGED callVars

\* C12: identity key. Two keys compare equal exactly when their fingerprints
\* are equal and their candidates serialize to the same bytes, and two keys
\* that compare equal have the same hash.
KeyIdentity ==
  pure.op = "key" =>
    /\ pure.equal <=>
         /\ pure.k1.autotune_key = pure.k2.autotune_key
         /\ SerializeAsString(pure.k1.res) = SerializeAsString(pure.k2.res)
    /\ pure.equal => pure.hash1 = pure.hash2

\* Two keys built from equal arguments were compared and hashed.
KeyIdentityWitness ==
  /\ pure.op = "key"
  /\ pure.equal /\ pure.hash1 = pure.hash2
  /\ pure.k1.res.kind = "triton" /\ pure.k1.res.param = 1
  /\ pure.k1.res.scratch_bytes = 1

\* ---------------------------------------------------------------------
\* ifrt::HloSharding, as xla_sharding_test.cc exercises it.

\* Largest number of tiles along one dimension, of replicas of a tile, and
\* of devices in a device list.
MaxTiles == 2
MaxReplicas == 3
MaxDevices == 6

\* Dimension sizes of the shapes that are sharded.
ShapeDims == {1, 5, 10, 11, 20}

\* Shape({...}) of rank one or two.
Shapes == UNION {[1..r -> ShapeDims] : r \in 1..2}

\* CreateDummyDevices(count): the devices are the pointers 1..count.
CreateDummyDevices(count) == [i \in 1..count |-> (i - 1) + 1]

\* xla::HloSharding values: Replicate(), Tile(dims), PartialTile(dims, r),
\* Subgroup(dims, r, {REPLICATED}) and Subgroup(dims, r, {MAXIMAL}); tile is
\* the TileAssignment, whose last dimension counts the replicas when the
\* sharding is not a plain tiling. The assignment is the iota one.
TileDimsChoices == UNION {[1..r -> 1..MaxTiles] : r \in 1..2}

XlaShardings ==
  {[kind |-> "replicated", tile |-> << >>]}
    \cup {[kind |-> "tiled", tile |-> d] : d \in TileDimsChoices}
    \cup {[kind |-> k, tile |-> Append(d, r)] :
            k \in {"partial", "subgroup_replicated", "subgroup_maximal"},
            d \in TileDimsChoices, r \in 1..MaxReplicas}

RECURSIVE Product(_)
Product(s) == IF s = << >> THEN 1 ELSE Head(s) * Product(Tail(s))

Min(a, b) == IF a < b THEN a ELSE b

CeilOfRatio(a, b) == (a + b - 1) \div b

\* The dimensions of the tile assignment that split the data.
TiledDims(s) ==
  IF s.kind = "tiled" THEN s.tile ELSE SubSeq(s.tile, 1, Len(s.tile) - 1)

\* Number of devices that hold the same tile.
NumReplicas(s) == IF s.kind = "tiled" THEN 1 ELSE s.tile[Len(s.tile)]

\* Row-major coordinates of the n-th (0-based) cell of an array of
\* dimensions dims.
RECURSIVE Unravel(_, _)
Unravel(n, dims) ==
  IF dims = << >> THEN << >>
  ELSE LET rest == Product(Tail(dims)) IN
         <<n \div rest>> \o Unravel(n % rest, Tail(dims))

\* IndexDomain(shape): the whole shape, at the origin.
WholeShape(shape) == [origin |-> [i \in DOMAIN shape |-> 0], shape |-> shape]

\* The index domain of the tile at coordinates c: tiles of size
\* ceil(dim / tiles), cut at the end of the dimension.
TileDomain(c, dims, shape) ==
  LET lb(i) == Min(CeilOfRatio(shape[i], dims[i]) * c[i], shape[i])
      ub(i) == Min(CeilOfRatio(shape[i], dims[i]) * (c[i] + 1), shape[i])
  IN  [origin |-> [i \in DOMAIN shape |-> lb(i)],
       shape |-> [i \in DOMAIN shape |-> ub(i) - lb(i)]]

\* A check that does not count the devices.
ShardingStatus_NoDeviceCheck(s, devices, shape) ==
  IF s.kind = "replicated" THEN "OK"
  ELSE IF Len(shape) # Len(TiledDims(s)) THEN "INVALID_ARGUMENT"
  ELSE "OK"

\* The checks of IndexDomains and Disassemble on a sharding that is not
\* replicated: as many devices in the tile assignment as in the device list,
\* and a shape of as many dimensions as the sharding tiles.
ShardingStatus(s, devices, shape) ==
  IF s.kind = "replicated" THEN "OK"
  ELSE IF Product(s.tile) # Len(devices) THEN "INVALID_ARGUMENT"
  ELSE IF Len(shape) # Len(TiledDims(s)) THEN "INVALID_ARGUMENT"
  ELSE "OK"

\* Tiles laid out with the replicas outermost.
TileOfDevice_ReplicasOutermost(i, s) == i % Product(TiledDims(s))

\* The tile (0-based, row-major) of the i-th (0-based) device: the replicas
\* of a tile are consecutive devices.
TileOfDevice(i, s) == i \div NumReplicas(s)

\* HloSharding::IndexDomains: tile by tile.
IndexDomains(s, devices, shape) ==
  IF ShardingStatus(s, devices, shape) # "OK"
  THEN [status |-> ShardingStatus(s, devices, shape), value |-> << >>]
  ELSE [status |-> "OK",
        value |->
          IF s.kind = "replicated"
          THEN [i \in DOMAIN devices |-> WholeShape(shape)]
          ELSE [i \in DOMAIN devices |->
                  TileDomain(Unravel(TileOfDevice(i - 1, s), TiledDims(s)),
                             TiledDims(s), shape)]]

\* TEST_HloShardingIndexDomainsSlowPath: device by device, from the offset
\* and the limit of the device's cell of the tile assignment.
IndexDomainsSlowPath(s, devices, shape) ==
  IF s.kind = "replicated"
  THEN [i \in DOMAIN devices |-> WholeShape(shape)]
  ELSE [i \in DOMAIN devices |->
          LET cell == Unravel(i - 1, s.tile)
              offset(j) == Min(cell[j] * CeilOfRatio(shape[j], s.tile[j]), shape[j])
              limit(j) == Min((cell[j] + 1) * CeilOfRatio(shape[j], s.tile[j]), shape[j])
          IN  [origin |-> [j \in DOMAIN shape |-> offset(j)],
               shape |-> [j \in DOMAIN shape |-> limit(j) - offset(j)]]]

\* SingleDeviceSharding::Create(device).
SingleDeviceSharding(device) == [kind |-> "SingleDeviceSharding", devices |-> <<device>>]

\* HloSharding::Disassemble: one (shard shape, single-device sharding) pair
\* per device.
Disassemble(s, devices, shape) ==
  LET domains == IndexDomains(s, devices, shape) IN
    IF domains.status # "OK" THEN domains
    ELSE [status |-> "OK",
          value |-> [i \in DOMAIN devices |->
                       [shape |-> domains.value[i].shape,
                        sharding |-> SingleDeviceSharding(devices[i])]]]

\* A sharding is created over a device list and asked for the index domains
\* and the disassembly of a shape.
EvalSharding ==
  /\ pure = NoPure
  /\ \E s \in XlaShardings, count \in 1..MaxDevices, shape \in Shapes :
       LET devices == CreateDummyDevices(count) IN
         pure' = [op |-> "sharding", sharding |-> s, devices |-> devices,
                  shape |-> shape,
                  index_domains |-> IndexDomains(s, devices, shape),
                  disassembled |-> Disassemble(s, devices, shape)]
  /\ UNCHANGED callVars

\* C17: HloSharding::IndexDomains gives one index domain per device, in the
\* order of the device list, equal to the slow-path reference; a replicated
\* device gets the whole shape; along a dimension of size d split n ways the
\* shards have at most ceil(d/n) elements, start at 0 and end at d (11 split
\* in 2 gives origins 0 and 6, sizes 6 and 5); and Disassemble gives, for the
\* i-th device, the shard shape and a SingleDeviceSharding on that device.
IndexDomainsMatchSlowPath ==
  (pure.op = "sharding" /\ pure.index_domains.status = "OK") =>
    LET s == pure.sharding
        devices == pure.devices
        shape == pure.shape
        n == Len(devices)
        doms == pure.index_domains.value
        dis == pure.disassembled.value IN
      /\ DOMAIN doms = 1..n
      /\ doms = IndexDomainsSlowPath(s, devices, shape)
      /\ s.kind = "replicated" =>
           \A i \in 1..n : doms[i].origin = [j \in DOMAIN shape |-> 0] /\ doms[i].shape = shape
      /\ s.kind # "replicated" =>
           \A j \in DOMAIN shape :
             /\ doms[1].origin[j] = 0
             /\ doms[n].origin[j] + doms[n].shape[j] = shape[j]
             /\ \A i \in 1..n :
                  /\ doms[i].shape[j] >= 0
                  /\ doms[i].origin[j] + doms[i].shape[j] <= shape[j]
                  /\ (doms[i].shape[j] - 1) * s.tile[j] < shape[j]
      /\ (s = [kind |-> "tiled", tile |-> <<2, 1>>] /\ shape = <<11, 20>>) =>
           doms = << [origin |-> <<0, 0>>, shape |-> <<6, 20>>],
                     [origin |-> <<6, 0>>, shape |-> <<5, 20>>] >>
      /\ (s.kind # "tiled" /\ s.tile = <<2, 1, 3>> /\ shape = <<10, 20>>) =>
           /\ \A i \in 1..3 : doms[i] = [origin |-> <<0, 0>>, shape |-> <<5, 20>>]
           /\ \A i \in 4..6 : doms[i] = [origin |-> <<5, 0>>, shape |-> <<5, 20>>]
      /\ pure.disassembled.status = "OK"
      /\ DOMAIN dis = 1..n
      /\ \A i \in 1..n :
           /\ dis[i].shape = doms[i].shape
           /\ dis[i].sharding.kind = "SingleDeviceSharding"
           /\ dis[i].sharding.devices = <<devices[i]>>

\* The partially tiled sharding of the test, over six devices.
IndexDomainsMatchSlowPathWitness ==
  /\ pure.op = "sharding" /\ pure.index_domains.status = "OK"
  /\ pure.sharding = [kind |-> "partial", tile |-> <<2, 1, 3>>]
  /\ pure.shape = <<11, 20>>
  /\ Len(pure.devices) = 6
  /\ pure.index_domains.value[4].origin = <<6, 0>>
  /\ pure.disassembled.value[4].shape = <<5, 20>>

\* C18: Disassemble fails with INVALID_ARGUMENT and gives no shard when the
\* tile assignment has not as many devices as the device list, or the shape
\* has not as many dimensions as the sharding tiles.
DisassembleRejects ==
  (/\ pure.op = "sharding"
   /\ pure.sharding.kind # "replicated"
   /\ \/ Product(pure.sharding.tile) # Len(pure.devices)
      \/ Len(pure.shape) # Len(TiledDims(pure.sharding))) =>
    /\ pure.disassembled.status = "INVALID_ARGUMENT"
    /\ pure.disassembled.value = << >>

\* Tile({2, 1}) over one device, as in DisassembleFailsWithInvalidDeviceCount.
DisassembleRejectsWitness ==
  /\ pure.op = "sharding"
  /\ pure.sharding = [kind |-> "tiled", tile |-> <<2, 1>>]
  /\ Len(pure.devices) = 1
  /\ pure.shape = <<10, 20>>
  /\ pure.disassembled.status = "INVALID_ARGUMENT"

\* Status codes the backend compiler can return.
StatusCodes ==
  {"OK", "RESOURCE_EXHAUSTED", "INTERNAL", "INVALID_ARGUMENT", "UNAVAILABLE", "CANCELLED"}

\* StatusOr<std::unique_ptr<Executable>> values of compiler_->RunBackend: an
\* Executable with OK, or a status with a message and no Executable.
CompilerResults ==
  {[code |-> "OK", message |-> "", executable |-> e] : e \in {"exe1", "exe2"}}
    \cup {[code |-> c, message |-> m, executable |-> "none"] :
            c \in StatusCodes \ {"OK"}, m \in {"out of shared memory", "ptxas failed"}}

\* Every failure of the backend treated as expected.
RunBackendResult_AnyFailure(out) ==
  IF out.code # "OK"
  THEN [code |-> "OK", message |-> "", executable |-> "null"]
  ELSE out

\* RunBackend, lines 222-225: what it returns for the compiler's result.
RunBackendResult(out) ==
  IF out.code = "RESOURCE_EXHAUSTED"
  THEN [code |-> "OK", message |-> "", executable |-> "null"]
  ELSE out

\* The outcome of BackendOutcomes a compiler result stands for.
OutcomeOf(out) ==
  IF out.code = "OK" THEN "exe"
  ELSE IF out.code = "RESOURCE_EXHAUSTED" THEN "exhausted"
  ELSE "error"

\* RunBackend is given one result of the backend compiler.
EvalRunBackend ==
  /\ pure = NoPure
  /\ \E out \in CompilerResults :
       pure' = [op |-> "run_backend", out |-> out, result |-> RunBackendResult(out)]
  /\ UNCHANGED callVars

\* C20: backend failure classification. ResourceExhausted from the backend
\* compiler becomes "no artifact" with an OK status; any other failure comes
\* back as it was, code and message; a success comes back with the
\* Executable the compiler built.
BackendClassification ==
  pure.op = "run_backend" =>
    /\ pure.out.code = "RESOURCE_EXHAUSTED" =>
         pure.result.code = "OK" /\ pure.result.executable = "null"
    /\ pure.out.code \notin {"OK", "RESOURCE_EXHAUSTED"} =>
         /\ pure.result.code = pure.out.code
         /\ pure.result.message = pure.out.message
         /\ pure.result.executable = "none"
    /\ pure.out.code = "OK" =>
         pure.result.code = "OK" /\ pure.result.executable = pure.out.executable
    /\ RunBackendOn(OutcomeOf(pure.out)) =
         (IF pure.result.code # "OK" THEN "error"
          ELSE IF pure.result.executable = "null" THEN "null" ELSE "exe")

\* A failure that is not resource exhaustion came back unchanged.
BackendClassificationWitness ==
  /\ pure.op = "run_backend"
  /\ pure.out.code = "INTERNAL" /\ pure.out.message = "ptxas failed"
  /\ pure.result = pure.out

\* C22: no retries. Within one call the extractor runs at most once, the
\* backend compiler at most once and Execute at most twice; a call in which a
\* step failed does nothing more, and neither does one to which Compile
\* returned the null marker.
NoRetries ==
  [][\A t \in Threads :
       Len(trace'[t]) > Len(trace[t]) =>
         /\ Count(trace'[t], "extract") <= 1
         /\ Count(trace'[t], "backend") <= 1
         /\ Count(trace'[t], "execute") <= 2
         /\ status[t] # "error"
         /\ executable[t] # NullExe]_vars

\* The timed execution of a call that ran its extractor and the backend
\* failed, and the call ended there with two executions dispatched.
NoRetriesWitness ==
  \E t \in Threads :
    /\ pc[t] = "done" /\ status[t] = "error"
    /\ Last(trace[t]) = "execute_failed"
    /\ Count(trace[t], "execute") = 2
    /\ Count(trace[t], "extract") = 1
    /\ Count(trace[t], "backend") = 1

\* C25: the measured interval covers only the timed run. The timer is
\* created after the warmup run, its drain and the second binding, and
\* before the timed run, which is the only thing between the creation of
\* the timer and its reading; the size check and the copy come after the
\* reading, and the warmup run and its drain come before any timer.
TimedIntervalOnly ==
  \A t \in Threads :
    Len(trace[t]) > 1 =>
      LET s == trace[t]
          n == Len(s)
      IN
        /\ Last(s) = "timer" =>
             /\ n >= 4
             /\ SubSeq(s, n - 3, n) = <<"execute", "drain", "bind", "timer">>
             /\ Count(s, "execute") = 1
        /\ Last(s) = "execute" =>
             /\ s[n - 1] \in {"bind", "timer"}
             /\ s[n - 1] = "timer" <=> Count(s, "execute") = 2
        /\ Last(s) = "drain" => s[n - 1] = "execute" /\ ~Has(s, "timer")
        /\ Last(s) \in {"elapsed", "elapsed_failed"} =>
             /\ n >= 3
             /\ SubSeq(s, n - 2, n - 1) = <<"timer", "execute">>
             /\ Count(s, "timer") = 1
             /\ ~Has(s, "copy") /\ ~Has(s, "size_ok") /\ ~Has(s, "size_mismatch")
        /\ Last(s) \in {"size_ok", "size_mismatch"} => s[n - 1] = "elapsed"
        /\ Last(s) = "copy" =>
             /\ n >= 3
             /\ SubSeq(s, n - 2, n) = <<"elapsed", "size_ok", "copy">>

\* The timer of a call was read and the size check is next; another call
\* is in its warmup run.
TimedIntervalOnlyWitness ==
  \E t \in Threads, u \in Threads :
    /\ pc[t] = "m_size" /\ Last(trace[t]) = "elapsed"
    /\ timer_duration[t] \in Durations
    /\ pc[u] = "m_drain"

\* The positions at which a call dereferences the pointer Compile returned:
\* the two bindings (executable->module()) and the two executions.
UsePCs == {"m_bind1", "m_warmup", "m_bind2", "m_timed"}

\* C26: handle validity under concurrent clear. Whenever a call is about to
\* bind inputs to or execute the Executable whose pointer Compile returned,
\* that Executable is the entry the cache holds for the call's key: no
\* clear() of another thread has destroyed it.
HandleValidity ==
  \A t \in Threads :
    pc[t] \in UsePCs =>
      /\ ~Freed(executable[t])
      /\ executable_cache[key[t]] = executable[t]

\* C27: the cached result depends only on the key. A probe that finds an
\* entry for the call's key returns that entry, whatever extractor the call
\* was given, and drops the extractor unused; the entry is the pointer the
\* publisher of the key holds when no clear() came since its call started;
\* and a call that hit never runs its extractor.
KeyOnlyResult ==
  [][\A t \in Threads :
       /\ (ProbeStep(t) /\ executable_cache[key[t]] # Absent) =>
            /\ executable'[t] = executable_cache[key[t]]
            /\ extractor'[t] = "gone"
            /\ trace'[t] = Append(trace[t], "hit")
            /\ pc'[t] = "m_check"
            /\ \A u \in Threads \ {t} :
                 (published[u] /\ key[u] = key[t] /\ u \notin clearedSince) =>
                   executable'[t] = executable[u]
       /\ (pc[t] = "c_extract" /\ pc'[t] # "c_extract") => ~Has(trace[t], "hit")]_vars

\* A call hit the entry another call had compiled and published for the
\* same key, and holds the publisher's pointer.
KeyOnlyResultWitness ==
  \E t \in Threads, u \in Threads :
    /\ t # u /\ key[t] = key[u]
    /\ published[u] /\ Has(trace[u], "backend") /\ u \notin clearedSince
    /\ trace[t] = <<"hit">>
    /\ IsArtifact(executable[t]) /\ executable[t] = executable[u]

\* StatusOr<std::unique_ptr<HloModule>> values of module_extractor(): a module
\* with OK, or a failure with a code, a message and, maybe, the
\* kUncompilableFusion payload (an OK status carries no payload).
ExtractorResults ==
  {[code |-> "OK", message |-> "", tagged |-> FALSE, module |-> "module"]}
    \cup {[code |-> c, message |-> m, tagged |-> g, module |-> "none"] :
            c \in StatusCodes \ {"OK"}, m \in {"bad split_k", "rewrite failed"},
            g \in BOOLEAN}

\* A classification by status code: resource exhaustion is the expected
\* failure, the payload is not looked at.
CompileNoCacheResult_ByCode(st, out) ==
  IF st.code = "RESOURCE_EXHAUSTED"
  THEN [code |-> "OK", message |-> "", executable |-> "null", backend |-> << >>]
  ELSE IF st.code # "OK"
  THEN [code |-> st.code, message |-> st.message, executable |-> "none", backend |-> << >>]
  ELSE RunBackendResult(out) @@ [backend |-> <<st.module>>]

\* CompileNoCache, lines 168-175, for the extractor's result st and the
\* result out the backend compiler would give: what it returns, and the
\* modules RunBackend was called with.
CompileNoCacheResult(st, out) ==
  IF st.tagged
  THEN [code |-> "OK", message |-> "", executable |-> "null", backend |-> << >>]
  ELSE IF st.code # "OK"
  THEN [code |-> st.code, message |-> st.message, executable |-> "none", backend |-> << >>]
  ELSE RunBackendResult(out) @@ [backend |-> <<st.module>>]

\* The extractor of Extractors an extractor result stands for.
ExtractorOf(st) ==
  IF st.tagged THEN "uncompilable"
  ELSE IF st.code # "OK" THEN "error"
  ELSE "module"

\* CompileNoCache is given one result of the extractor.
EvalCompileNoCache ==
  /\ pure = NoPure
  /\ \E st \in ExtractorResults, out \in CompilerResults :
       pure' = [op |-> "compile_no_cache", st |-> st, out |-> out,
                result |-> CompileNoCacheResult(st, out)]
  /\ UNCHANGED callVars

\* C21: rewrite-callback failure classification. A failure of the extractor
\* becomes "no artifact" with an OK status exactly when it carries the
\* uncompilable payload, whatever its code; any other failure, an untagged
\* ResourceExhausted included, comes back as it was; and after either the
\* backend compiler is not called.
RewriteClassification ==
  pure.op = "compile_no_cache" =>
    /\ pure.st.code # "OK" =>
         /\ (pure.result.code = "OK" /\ pure.result.executable = "null") <=> pure.st.tagged
         /\ ~pure.st.tagged =>
              /\ pure.result.code = pure.st.code
              /\ pure.result.message = pure.st.message
              /\ pure.result.executable = "none"
         /\ pure.result.backend = << >>
    /\ pure.st.code = "OK" => pure.result.backend = <<pure.st.module>>
    /\ CompileNoCacheOn(ExtractorOf(pure.st)) =
         (IF pure.st.tagged THEN "null"
          ELSE IF pure.st.code # "OK" THEN "error" ELSE "backend")

\* An untagged ResourceExhausted from the extractor came back as an error.
RewriteClassificationWitness ==
  /\ pure.op = "compile_no_cache"
  /\ pure.st.code = "RESOURCE_EXHAUSTED" /\ ~pure.st.tagged
  /\ pure.result.code = "RESOURCE_EXHAUSTED"
  /\ pure.result.backend = << >>

\* Most parameters of an executable's entry computation, and most buffers a
\* caller passes.
MaxArity == 2

\* Shapes of entry-computation parameters, and the caller's device buffers.
ParamShapes == {"f32[4]", "s8[16]"}
DeviceBuffers == {"input_a", "input_b"}

SeqsUpTo(S, n) == UNION {[1..k -> S] : k \in 0..n}

\* The buffers are bound to the parameters from the last to the first.
ExecutionInputsFromBuffers_Reversed(params, buffers) ==
  IF Len(params) # Len(buffers)
  THEN [aborted |-> TRUE, inputs |-> << >>]
  ELSE [aborted |-> FALSE,
        inputs |-> [i \in 1..Len(params) |->
                      [shape |-> params[i], index |-> << >>,
                       memory |-> buffers[Len(buffers) + 1 - i], owned |-> FALSE]]]

\* ExecutionInputsFromBuffers, lines 88-102: CHECK_EQ on the two sizes, then
\* one ExecutionInput per parameter, of the parameter's shape, whose root
\* buffer is the caller's i-th buffer, held as not owned.
ExecutionInputsFromBuffers(params, buffers) ==
  IF Len(params) # Len(buffers)
  THEN [aborted |-> TRUE, inputs |-> << >>]
  ELSE [aborted |-> FALSE,
        inputs |-> [i \in 1..Len(params) |->
                      [shape |-> params[i], index |-> << >>,
                       memory |-> buffers[i], owned |-> FALSE]]]

\* Lines 120-125: the inputs are bound, then Execute is called with them; an
\* abort in the binding ends the process before Execute. The result lists
\* the arguments of the Execute calls made.
BindThenExecute(params, buffers) ==
  LET b == ExecutionInputsFromBuffers(params, buffers) IN
    IF b.aborted THEN << >> ELSE <<b.inputs>>

\* Inputs are bound for an executable and a span of buffers.
EvalExecutionInputs ==
  /\ pure = NoPure
  /\ \E params \in SeqsUpTo(ParamShapes, MaxArity),
        buffers \in SeqsUpTo(DeviceBuffers, MaxArity) :
       pure' = [op |-> "bind_inputs", params |-> params, buffers |-> buffers,
                result |-> ExecutionInputsFromBuffers(params, buffers),
                executed |-> BindThenExecute(params, buffers)]
  /\ UNCHANGED callVars

\* C23: input binding. With as many buffers as parameters the binding gives
\* one input per parameter, in order, the i-th of the i-th parameter's shape
\* and referring to the caller's i-th buffer without owning it; with any
\* other number of buffers it aborts, and no execution is dispatched.
InputBinding ==
  pure.op = "bind_inputs" =>
    IF Len(pure.params) # Len(pure.buffers)
    THEN pure.result.aborted /\ pure.executed = << >>
    ELSE /\ ~pure.result.aborted
         /\ Len(pure.result.inputs) = Len(pure.params)
         /\ \A i \in 1..Len(pure.params) :
              /\ pure.result.inputs[i].shape = pure.params[i]
              /\ pure.result.inputs[i].memory = pure.buffers[i]
              /\ pure.result.inputs[i].index = << >>
              /\ ~pure.result.inputs[i].owned
         /\ pure.executed = <<pure.result.inputs>>

\* Two parameters of different shapes were bound to two different buffers.
InputBindingWitness ==
  /\ pure.op = "bind_inputs"
  /\ Len(pure.params) = 2 /\ pure.params[1] # pure.params[2]
  /\ Len(pure.buffers) = 2
  /\ pure.buffers[1] # pure.buffers[2]
  /\ pure.result.inputs[2].memory = pure.buffers[2]

\* DebugOptions values: the six options RunBackend sets and one it does not.
DebugOptionsValues ==
  [xla_dump_to : {"", "/tmp/dump"},
   xla_gpu_dump_autotune_results_to : {"", "results.pbtxt"},
   xla_gpu_load_autotune_results_from : {"", "cached.pbtxt"},
   xla_gpu_dump_llvmir : BOOLEAN,
   xla_gpu_force_compilation_parallelism : {0, 1, 8},
   xla_gpu_enable_xla_runtime_executable : BOOLEAN,
   xla_gpu_autotune_level : {0, 4}]

\* The debug options the extracted module arrives with.
ExtractedOptionsValues ==
  {o \in DebugOptionsValues :
     /\ o.xla_dump_to = "/tmp/dump"
     /\ o.xla_gpu_dump_autotune_results_to = ""
     /\ o.xla_gpu_load_autotune_results_from = ""
     /\ o.xla_gpu_dump_llvmir
     /\ o.xla_gpu_force_compilation_parallelism = 8
     /\ o.xla_gpu_enable_xla_runtime_executable}

\* The overrides applied to the extracted module's own options.
SanitizedOptions_OfExtracted(original, extracted) ==
  [extracted EXCEPT
     !.xla_dump_to = "",
     !.xla_gpu_dump_autotune_results_to = "",
     !.xla_gpu_load_autotune_results_from = "",
     !.xla_gpu_dump_llvmir = FALSE,
     !.xla_gpu_force_compilation_parallelism = 1,
     !.xla_gpu_enable_xla_runtime_executable = FALSE]

\* RunBackend, lines 208-217: a copy of the debug options of the original
\* computation's module, with six options overridden; the options the
\* extracted module came with are not read.
SanitizedOptions(original, extracted) ==
  [original EXCEPT
     !.xla_dump_to = "",
     !.xla_gpu_dump_autotune_results_to = "",
     !.xla_gpu_load_autotune_results_from = "",
     !.xla_gpu_dump_llvmir = FALSE,
     !.xla_gpu_force_compilation_parallelism = 1,
     !.xla_gpu_enable_xla_runtime_executable = FALSE]

\* RunBackend, lines 208-220: the two configurations after line 218, the
\* second being the one of the module given to compiler_->RunBackend. The
\* original is read through a const reference and is not written.
RunBackendConfigs(original, extracted) ==
  [original |-> original, module |-> SanitizedOptions(original, extracted)]

\* RunBackend prepares the options of one extracted module.
EvalRunBackendOptions ==
  /\ pure = NoPure
  /\ \E original \in DebugOptionsValues, extracted \in ExtractedOptionsValues :
       pure' = [op |-> "options", original |-> original, extracted |-> extracted,
                result |-> RunBackendConfigs(original, extracted)]
  /\ UNCHANGED callVars

\* C24: option sanitization. The options handed to the backend compiler have
\* the dump directory and the two autotune-results paths empty, LLVM-IR
\* dumping off, forced compilation parallelism 1 and the XLA runtime
\* executable off; every other option has the value of the original module's
\* configuration, which itself is as it was.
OptionSanitization ==
  pure.op = "options" =>
    LET o == pure.result.module IN
      /\ o.xla_dump_to = ""
      /\ o.xla_gpu_dump_autotune_results_to = ""
      /\ o.xla_gpu_load_autotune_results_from = ""
      /\ o.xla_gpu_dump_llvmir = FALSE
      /\ o.xla_gpu_force_compilation_parallelism = 1
      /\ o.xla_gpu_enable_xla_runtime_executable = FALSE
      /\ o.xla_gpu_autotune_level = pure.original.xla_gpu_autotune_level
      /\ pure.result.original = pure.original

\* An original configuration with every one of the six options set the other
\* way, and an extracted module whose remaining option differed from it.
OptionSanitizationWitness ==
  /\ pure.op = "options"
  /\ pure.original.xla_dump_to # ""
  /\ pure.original.xla_gpu_dump_autotune_results_to # ""
  /\ pure.original.xla_gpu_load_autotune_results_from # ""
  /\ pure.original.xla_gpu_dump_llvmir
  /\ pure.original.xla_gpu_force_compilation_parallelism = 8
  /\ pure.original.xla_gpu_enable_xla_runtime_executable
  /\ pure.extracted.xla_gpu_autotune_level # pure.original.xla_gpu_autotune_level
  /\ pure.result.module.xla_dump_to = ""

PureNext ==
  \/ EvalKey
  \/ EvalSharding
  \/ EvalRunBackend
  \/ EvalCompileNoCache
  \/ EvalExecutionInputs
  \/ EvalRunBackendOptions

PureSpec == Init /\ [][PureNext]_vars

\* Position of the first e in s (0 when there is none).
IndexOf(s, e) == IF Has(s, e) THEN CHOOSE i \in DOMAIN s : s[i] = e /\ \A j \in 1..(i-1) : s[j] # e ELSE 0

\* The duration a finished call returned (line 142), NoDuration when it
\* returned none.
ReturnedDuration(t) == IF status[t] = "duration" THEN timer_duration[t] ELSE NoDuration

\* C13: success path. A call whose two executions, drain, timer and size
\* check all succeeded returns a duration d >= 0, the one the timer gave;
\* it issued exactly one copy, after the timer was read, and the caller's
\* output buffer holds the output of the timed run, not of the warmup.
SuccessPath ==
  \A t \in Threads :
    /\ (pc[t] = "done" /\ Has(trace[t], "size_ok")) => status[t] = "duration"
    /\ status[t] = "duration" =>
         /\ pc[t] = "done"
         /\ ReturnedDuration(t) \in Durations /\ ReturnedDuration(t) >= 0
         /\ Count(trace[t], "copy") = 1 /\ Last(trace[t]) = "copy"
         /\ Count(trace[t], "elapsed") = 1
         /\ IndexOf(trace[t], "elapsed") < IndexOf(trace[t], "copy")
         /\ output_buffer[t] = "timed"

SuccessPathWitness ==
  \E t \in Threads :
    /\ status[t] = "duration" /\ pc[t] = "done"
    /\ Count(trace[t], "execute") = 2 /\ Has(trace[t], "drain")
    /\ output_buffer[t] = "timed" /\ ReturnedDuration(t) = 1

\* C14: no cross-identity reuse. Every artifact a call got back from Compile
\* was built by a compilation made for the key of that call, and every
\* artifact in the map sits under the key it was built for, whatever calls
\* and clears came before.
NoCrossIdentityReuse ==
  /\ \A t \in Threads :
       (Returned(t) /\ IsArtifact(executable[t])) =>
         heap[executable[t]].key = key[t]
  /\ \A k \in Keys :
       IsArtifact(executable_cache[k]) => heap[executable_cache[k]].key = k

\* A call was served from the map while the map also held an artifact of
\* another key.
NoCrossIdentityReuseWitness ==
  \E t \in Threads :
    /\ Returned(t) /\ IsArtifact(executable[t]) /\ Has(trace[t], "hit")
    /\ \E k \in Keys : k # key[t] /\ IsArtifact(executable_cache[k])

\* A step of t that dispatches an execution.
ExecuteStep(t) ==
  Count(trace'[t], "execute") = Count(trace[t], "execute") + 1

\* C15: exclusive device access. Every execution a call dispatches, warmup
\* and timed, carries the requires-exclusive-lock-on-GPU option and runs on
\* the stream, the allocator and the device ordinal of the util it was
\* called on; no execution goes out without the flag.
ExclusiveDeviceAccess ==
  [][\A t \in Threads :
       ExecuteStep(t) =>
         /\ pc[t] \in {"m_warmup", "m_timed"}
         /\ run_options'[t].requires_exclusive_lock_on_gpu
         /\ run_options'[t].stream = Util(t).stream
         /\ run_options'[t].allocator = Util(t).allocator
         /\ run_options'[t].device_ordinal = Util(t).device_ordinal]_vars

\* Both executions of a call went out, while another thread's call, on
\* another util, had dispatched one too.
ExclusiveDeviceAccessWitness ==
  \E t \in Threads, u \in Threads :
    /\ t # u
    /\ Count(trace[t], "execute") = 2
    /\ run_options[t].requires_exclusive_lock_on_gpu
    /\ Has(trace[u], "execute") /\ run_options[u].stream # run_options[t].stream

\* What a call logs when a step after Compile fails.
FailureEvents == {"execute_failed", "drain_failed", "timer_failed", "elapsed_failed"}

\* The warmup execution or the drain after it failed.
WarmupFailed(t) ==
  \/ Has(trace[t], "drain_failed")
  \/ Has(trace[t], "execute_failed") /\ Count(trace[t], "execute") = 1

\* The timer creation, the timed execution or the reading of the timer failed.
TimingFailed(t) ==
  \/ Has(trace[t], "timer_failed")
  \/ Has(trace[t], "elapsed_failed")
  \/ Has(trace[t], "execute_failed") /\ Count(trace[t], "execute") = 2

\* C16: fatal conditions propagate at once. A failed warmup execution or
\* drain ends the call with an error before any timer, timed run or copy; a
\* failed timer creation, timed execution or timer reading ends it with an
\* error before any copy; no duration is returned and the caller's output
\* buffer is as the caller left it.
FatalPropagation ==
  \A t \in Threads :
    (\E i \in DOMAIN trace[t] : trace[t][i] \in FailureEvents) =>
      /\ WarmupFailed(t) \/ TimingFailed(t)
      /\ pc[t] = "done" /\ status[t] = "error"
      /\ Last(trace[t]) \in FailureEvents
      /\ ReturnedDuration(t) = NoDuration
      /\ ~Has(trace[t], "copy")
      /\ output_buffer[t] = "caller"
      /\ WarmupFailed(t) =>
           /\ ~Has(trace[t], "timer") /\ ~Has(trace[t], "timer_failed")
           /\ Count(trace[t], "execute") = 1
           /\ ~Has(trace[t], "elapsed")
      /\ Has(trace[t], "timer_failed") => Count(trace[t], "execute") = 1

\* A warmup execution failed on an Executable that is alive.
FatalPropagationWitness ==
  \E t \in Threads :
    /\ WarmupFailed(t) /\ Has(trace[t], "execute_failed")
    /\ ~Freed(executable[t]) /\ pc[t] = "done"

====
